---- MODULE Spec2Model ----
(***************************************************************************)
(* Model of afra/methods/fit.py: the fit orchestrator (class fit), its two *)
(* statistic variants (gaussfit, hlfit), the objective core                *)
(* (_core_likelihood, _core_lsq) and the three solver adapters.            *)
(*                                                                         *)
(* Numeric conventions.  Cube coordinates are held in halves: the         *)
(* coordinate c stands for the float c/2, so 0..One (One == 2) is the      *)
(* closed interval [0,1], -1 lies below it and One+1 above it.             *)
(* Parameter values (the models' params, the fit's params, the values      *)
(* passed to reset) are held in the same units; ranges [low, high] are     *)
(* held in whole physical units.                                           *)
(*                                                                         *)
(* Tensors are held by their shape.  What the vectorisation (gvec, hvec of *)
(* afra.tools.aux) and the solve (np.linalg.lstsq) make of the numbers is  *)
(* an input of each evaluation, named num: "finite" for a finite           *)
(* statistic, "nan" for a NaN statistic, "diffnan" for a residual holding  *)
(* a NaN, "raise" for a solve that raises.                                 *)
(***************************************************************************)
EXTENDS Integers, Sequences, FiniteSets, TLC

\* ------------------------------------------------------------------ bounds
MaxEvals == 1       \* objective evaluations performed in one behaviour
MaxPdict == 2       \* entries of the dict handed to rerange
MaxTau == 2         \* largest autocorrelation time the engine reports

\* The float 1. that bounds the unit cube, in the model's units (halves).
One == 2

None == "None"
NoTensor == <<>>

\* Shapes of 4-dimensional band-power tensors.
Shape4 == <<1, 1, 1, 1>>
Shape4b == <<2, 1, 1, 1>>
Shape4c == <<1, 2, 1, 1>>

\* ------------------------------------------------- the collaborating models
\* Three model objects exist: two foreground models and one background model.
Models == {"F1", "F2", "B1"}

ModelClass == [F1 |-> "fgmodel", F2 |-> "fgmodel", B1 |-> "bgmodel"]

\* model.params as the model objects are built (name -> value, in 1/One)
ModelParams0 ==
    [F1 |-> ("a" :> 2 @@ "b" :> 4),
     F2 |-> ("b" :> 6),
     B1 |-> ("a" :> 0)]

\* model.paramrange (name -> [low, high])
ModelRange ==
    [F1 |-> ("a" :> <<0, 2>> @@ "b" :> <<1, 3>>),
     F2 |-> ("b" :> <<2, 4>>),
     B1 |-> ("a" :> <<0, 1>>)]

\* model.blacklist
ModelBlacklist ==
    [F1 |-> {},
     F2 |-> {"a"},
     B1 |-> {"b"}]

\* The shape of the tensor model.bandpower() returns.
ModelShape ==
    [F1 |-> Shape4,
     F2 |-> Shape4b,
     B1 |-> Shape4]

\* model.reset(pdict) for a one-entry pdict {name: v}: the model takes the
\* value when it declares the name and ignores the name otherwise.
ModelReset(mp, m, name, v) ==
    IF name \in DOMAIN mp[m] THEN [mp EXCEPT ![m][name] = v] ELSE mp

\* ------------------------------------------------------------------ helpers
\* Lexicographic order of the parameter names in use.
NameOrder == <<"a", "b", "c">>
Names == {NameOrder[i] : i \in 1..Len(NameOrder)}
Rank(n) == CHOOSE i \in 1..Len(NameOrder) : NameOrder[i] = n

\* sorted(names): ascending lexicographic order
RECURSIVE sorted(_)
sorted(S) ==
    IF S = {} THEN <<>>
    ELSE LET m == CHOOSE x \in S : \A y \in S : Rank(x) <= Rank(y)
         IN  <<m>> \o sorted(S \ {m})

\* dict.update(other)
DictUpdate(d, other) ==
    [k \in (DOMAIN d) \cup (DOMAIN other) |->
        IF k \in DOMAIN other THEN other[k] ELSE d[k]]

EmptyDict == [k \in {} |-> 0]

\* umap(x, [low, high]) of afra.tools.aux: x*(high-low) + low, the result in
\* units of 1/One for a coordinate x in units of 1/One.
umap(x, r) == x * (r[2] - r[1]) + One * r[1]

\* The shape of a + b for two band-power tensors (numpy broadcasting; the
\* extents in use are 1 and 2, which always broadcast).
Broadcast(s, t) == [i \in 1..Len(s) |-> IF s[i] >= t[i] THEN s[i] ELSE t[i]]

\* np.any(cube > 1.) or np.any(cube < 0.)
OutOfCube(cube) ==
    \/ \E i \in 1..Len(cube) : cube[i] > One
    \/ \E i \in 1..Len(cube) : cube[i] < 0

\* ----------------------------------------------------------- objective core
\* A record of one call made on a model object.
ResetCall(m, name, v) == [model |-> m, op |-> "reset", name |-> name, value |-> v]
BandpowerCall(m) == [model |-> m, op |-> "bandpower", name |-> "", value |-> 0]

\* What an objective evaluation hands back: kind is the statistic returned
\* ("loglikeli", "lsq"), a sentinel, or "raise"; of lists the models whose
\* bandpower() outputs were summed into the prediction.
Ret(kind, of) == [kind |-> kind, of |-> of]
MostNegative == Ret("nan_to_num(-inf)", <<>>)
MostPositive == Ret("nan_to_num(+inf)", <<>>)

\* The classes of number an evaluation's vectorisation and solve produce.
Nums == {"finite", "nan", "diffnan", "raise"}

\* The loop with the two resets swapped: background first.
RECURSIVE CoreResetsBackgroundFirst(_, _, _, _, _, _, _)
CoreResetsBackgroundFirst(name_list, cube, i, fg, bg, prange, st) ==
    IF i > Len(name_list) THEN st
    ELSE IF i > Len(cube) THEN [st EXCEPT !.err = "IndexError"]
    ELSE IF name_list[i] \notin DOMAIN prange THEN [st EXCEPT !.err = "KeyError"]
    ELSE LET name == name_list[i]
             tmp == umap(cube[i], prange[name])
             s1 == IF bg # None
                   THEN [st EXCEPT !.mp = ModelReset(st.mp, bg, name, tmp),
                                   !.calls = Append(st.calls, ResetCall(bg, name, tmp))]
                   ELSE st
             s2 == IF fg # None
                   THEN [s1 EXCEPT !.mp = ModelReset(s1.mp, fg, name, tmp),
                                   !.calls = Append(s1.calls, ResetCall(fg, name, tmp))]
                   ELSE s1
         IN  CoreResetsBackgroundFirst(name_list, cube, i + 1, fg, bg, prange, s2)

\* The loop over name_list: for the i-th name, map the i-th coordinate with
\* that name's range and reset the foreground, then the background.  cube[i]
\* raises IndexError on a cube with fewer coordinates than names, and
\* _paramrange[name] raises KeyError on a name that has no range.
\* st = [mp |-> the models' parameter state, calls |-> the calls so far,
\*       err |-> the error raised]
RECURSIVE CoreResets(_, _, _, _, _, _, _)
CoreResets(name_list, cube, i, fg, bg, prange, st) ==
    IF i > Len(name_list) THEN st
    ELSE IF i > Len(cube) THEN [st EXCEPT !.err = "IndexError"]
    ELSE IF name_list[i] \notin DOMAIN prange THEN [st EXCEPT !.err = "KeyError"]
    ELSE LET name == name_list[i]
             tmp == umap(cube[i], prange[name])
             s1 == IF fg # None
                   THEN [st EXCEPT !.mp = ModelReset(st.mp, fg, name, tmp),
                                   !.calls = Append(st.calls, ResetCall(fg, name, tmp))]
                   ELSE st
             s2 == IF bg # None
                   THEN [s1 EXCEPT !.mp = ModelReset(s1.mp, bg, name, tmp),
                                   !.calls = Append(s1.calls, ResetCall(bg, name, tmp))]
                   ELSE s1
         IN  CoreResets(name_list, cube, i + 1, fg, bg, prange, s2)

\* loglikeli(predicted) / lsq(predicted) of gaussfit and hlfit, on the shape
\* of the prediction: the shape assertion, the NaN test of the residual, the
\* solve, the NaN test of the statistic.  stat is "loglikeli" or "lsq".
Statistic(stat, predicted, dataShape, num) ==
    IF predicted # dataShape THEN [kind |-> "raise", err |-> "AssertionError"]
    ELSE IF num = "diffnan"
    THEN [kind |-> "raise", err |-> "ValueError: encounter nan"]
    ELSE IF num = "raise" THEN [kind |-> "raise", err |-> "LinAlgError"]
    ELSE IF num = "nan"
    THEN [kind |-> IF stat = "loglikeli" THEN "nan_to_num(-inf)"
                   ELSE "nan_to_num(+inf)",
          err |-> ""]
    ELSE [kind |-> stat, err |-> ""]

\* The prediction step shared by both entry points, reached when the loop
\* raised nothing: the attached models' band powers, summed when both are
\* attached, are handed to the statistic.
CorePredict(stat, fg, bg, dataShape, num, st) ==
    IF st.err # ""
    THEN [ret |-> Ret("raise", <<>>), err |-> st.err,
          calls |-> st.calls, mp |-> st.mp]
    ELSE IF fg = None /\ bg = None
    THEN [ret |-> Ret("raise", <<>>), err |-> "AttributeError",
          calls |-> st.calls, mp |-> st.mp]
    ELSE LET of == IF fg = None THEN <<bg>>
                   ELSE IF bg = None THEN <<fg>>
                   ELSE <<fg, bg>>
             predicted == IF Len(of) = 1 THEN ModelShape[of[1]]
                          ELSE Broadcast(ModelShape[fg], ModelShape[bg])
             s == Statistic(stat, predicted, dataShape, num)
         IN  [ret |-> Ret(s.kind, of), err |-> s.err,
              calls |-> st.calls \o [j \in 1..Len(of) |-> BandpowerCall(of[j])],
              mp |-> st.mp]

\* _core_likelihood with the lower bound of the cube left untested.
core_likelihood_upper_only(cube, num, fg, bg, active, prange, dataShape, mp) ==
    IF \E i \in 1..Len(cube) : cube[i] > One
    THEN [ret |-> MostNegative, err |-> "", calls |-> <<>>, mp |-> mp]
    ELSE CorePredict("loglikeli", fg, bg, dataShape, num,
             CoreResets(sorted(active), cube, 1, fg, bg, prange,
                        [mp |-> mp, calls |-> <<>>, err |-> ""]))

\* fit._core_likelihood(cube)
core_likelihood(cube, num, fg, bg, active, prange, dataShape, mp) ==
    IF OutOfCube(cube)
    THEN [ret |-> MostNegative, err |-> "", calls |-> <<>>, mp |-> mp]
    ELSE CorePredict("loglikeli", fg, bg, dataShape, num,
             CoreResets(sorted(active), cube, 1, fg, bg, prange,
                        [mp |-> mp, calls |-> <<>>, err |-> ""]))

\* fit._core_lsq(cube)
core_lsq(cube, num, fg, bg, active, prange, dataShape, mp) ==
    IF OutOfCube(cube)
    THEN [ret |-> MostPositive, err |-> "", calls |-> <<>>, mp |-> mp]
    ELSE CorePredict("lsq", fg, bg, dataShape, num,
             CoreResets(sorted(active), cube, 1, fg, bg, prange,
                        [mp |-> mp, calls |-> <<>>, err |-> ""]))

\* ---------------------------------------------------------- solver adapters
Solvers == {"minuit", "dynesty", "emcee"}

\* One evaluation an engine makes: the cube and the class of number the
\* statistic's numerics produce there.
Eval(cube, num) == [cube |-> cube, num |-> num]

\* The objective a solver is handed: run_minuit passes _core_lsq, run_emcee
\* and run_dynesty pass _core_likelihood.
Objective(slv, ev, fg, bg, active, prange, dataShape, mp) ==
    IF slv = "minuit"
    THEN core_lsq(ev.cube, ev.num, fg, bg, active, prange, dataShape, mp)
    ELSE core_likelihood(ev.cube, ev.num, fg, bg, active, prange, dataShape, mp)

\* The evaluations a solver engine performs, in order, each on the model
\* state the previous one left; an exception raised by an evaluation
\* propagates out of the engine and ends the sequence.
\* acc = [mp |-> the models' state, n |-> evaluations made, err |-> the error]
RECURSIVE Evaluate(_, _, _, _, _, _, _, _, _)
Evaluate(slv, evals, i, fg, bg, active, prange, dataShape, acc) ==
    IF i > Len(evals) \/ acc.err # "" THEN acc
    ELSE LET r == Objective(slv, evals[i], fg, bg, active, prange, dataShape, acc.mp)
         IN  Evaluate(slv, evals, i + 1, fg, bg, active, prange, dataShape,
                      [mp |-> r.mp, n |-> acc.n + 1, err |-> r.err])

\* The calls run_emcee makes on the ensemble sampler, in order.  tau is the
\* value int(np.mean(solver.get_autocorr_time())) takes.
EngineRun(from, steps) == [op |-> "run_mcmc", from |-> from, n |-> steps]
EngineReset == [op |-> "reset", from |-> "", n |-> 0]
EngineTau(tau) == [op |-> "get_autocorr_time", from |-> "", n |-> tau]
EngineChain(discard) == [op |-> "get_chain", from |-> "", n |-> discard]

\* run_emcee extending also when nstep equals 50*tau.
run_emcee_inclusive(nstep, tau) ==
    <<EngineRun("random", nstep \div 10),
      EngineReset,
      EngineRun("burn-in state", nstep),
      EngineTau(tau)>>
    \o (IF nstep <= 50 * tau
        THEN <<EngineReset, EngineRun("run state", 100 * tau)>>
        ELSE <<>>)
    \o <<EngineChain(10 * tau)>>

run_emcee(nstep, tau) ==
    <<EngineRun("random", nstep \div 10),
      EngineReset,
      EngineRun("burn-in state", nstep),
      EngineTau(tau)>>
    \o (IF nstep < 50 * tau
        THEN <<EngineReset, EngineRun("run state", 100 * tau)>>
        ELSE <<>>)
    \o <<EngineChain(10 * tau)>>

\* The ensemble sampler's bookkeeping: the chain holds the steps run since
\* the last reset, and get_chain(discard) hands back what is left of it
\* after dropping the first `discard` steps of every walker.
RECURSIVE ChainSteps(_, _, _)
ChainSteps(log, i, held) ==
    IF i > Len(log) THEN held
    ELSE IF log[i].op = "reset" THEN ChainSteps(log, i + 1, 0)
    ELSE IF log[i].op = "run_mcmc" THEN ChainSteps(log, i + 1, held + log[i].n)
    ELSE IF log[i].op = "get_chain"
         THEN (IF held > log[i].n THEN held - log[i].n ELSE 0)
    ELSE ChainSteps(log, i + 1, held)

\* run_minuit / run_emcee / run_dynesty on the active list held: the engine
\* evaluates the objective at evals, then the adapter maps the engine's
\* output of every active name with fit.paramrange[name], which raises
\* KeyError on a name that has no range.  An evaluation that raises does so
\* in the engine's first call, which ends the adapter.
SolverAdapter(slv, nstep, tau, evals, fg, bg, active, prange, dataShape, mp) ==
    LET r == Evaluate(slv, evals, 1, fg, bg, active, prange, dataShape,
                      [mp |-> mp, n |-> 0, err |-> ""])
        err == IF r.err # "" THEN r.err
               ELSE IF active \subseteq DOMAIN prange THEN ""
               ELSE "KeyError"
        engine == IF slv # "emcee" THEN <<>>
                  ELSE IF r.err = "" THEN run_emcee(nstep, tau)
                  ELSE SubSeq(run_emcee(nstep, tau), 1, 1)
    IN  [mp |-> r.mp, n |-> r.n, err |-> err, engine |-> engine,
         ret |-> IF err # "" THEN Ret("raise", <<>>)
                 ELSE Ret(slv, sorted(active))]

\* The method run() dispatches to, also callable on its own.
AdapterName == [minuit |-> "run_minuit", emcee |-> "run_emcee",
                dynesty |-> "run_dynesty"]

\* ------------------------------------------------------------ fit: setters
\* A band-power tensor handed to a setter: its shape and whether it holds a
\* NaN.  Only the shape of an accepted tensor is kept.
Tensor(shape, nan) == [none |-> FALSE, shape |-> shape, nan |-> nan]
\* None passed where a tensor is optional (hlfit's offset argument)
NoneTensor == [none |-> TRUE, shape |-> <<>>, nan |-> FALSE]
\* no offset attribute (before hlfit.__init__ assigns it, and on a gaussfit)
NoOffset == [shape |-> NoTensor, zero |-> FALSE]

\* data / fiducial / noise setters: ndim == 4, then no NaN.
TensorCheck(t) ==
    IF Len(t.shape) # 4 THEN "AssertionError"
    ELSE IF t.nan THEN "ValueError: encounter nan"
    ELSE ""

\* covariance setter: ndim == 2, square, then no NaN.
CovarianceCheck(t) ==
    IF Len(t.shape) # 2 THEN "AssertionError"
    ELSE IF t.shape[1] # t.shape[2] THEN "AssertionError"
    ELSE IF t.nan THEN "ValueError: encounter nan"
    ELSE ""

\* A value handed to the params or paramrange setter: isdict says whether
\* it is a dict, d holds its items.  The dict is one no other object holds.
Dict(d) == [isdict |-> TRUE, d |-> d]
NotDict == [isdict |-> FALSE, d |-> [k \in {} |-> 0]]

\* params / paramrange setters: isinstance(value, dict)
DictCheck(v) == IF v.isdict THEN "" ELSE "AssertionError"

\* A value handed to the activelist setter
Set(s) == [isset |-> TRUE, s |-> s]
NotSet == [isset |-> FALSE, s |-> {}]

\* activelist setter: isinstance(value, set)
SetCheck(v) == IF v.isset THEN "" ELSE "AssertionError"

\* solver setter
SolverCheck(slv) == IF slv \in Solvers THEN "" ELSE "AssertionError"

\* foreground setter, on st = [foreground, background, params, paramrange]
foreground_setter(m, st, mp) ==
    IF m = None
    THEN [err |-> "", st |-> [st EXCEPT !.foreground = None]]
    ELSE IF ModelClass[m] # "fgmodel"
    THEN [err |-> "AssertionError", st |-> st]
    ELSE [err |-> "",
          st |-> [st EXCEPT !.foreground = m,
                            !.params = DictUpdate(st.params, mp[m]),
                            !.paramrange = DictUpdate(st.paramrange, ModelRange[m])]]

\* background setter
background_setter(m, st, mp) ==
    IF m = None
    THEN [err |-> "", st |-> [st EXCEPT !.background = None]]
    ELSE IF ModelClass[m] # "bgmodel"
    THEN [err |-> "AssertionError", st |-> st]
    ELSE [err |-> "",
          st |-> [st EXCEPT !.background = m,
                            !.params = DictUpdate(st.params, mp[m]),
                            !.paramrange = DictUpdate(st.paramrange, ModelRange[m])]]

\* hlfit offset setter: None gives zeros shaped like the noise held.
\* An offset held is [shape, zero].
offset_setter(off, noiseShape, cur) ==
    IF off.none
    THEN [err |-> "", offset |-> [shape |-> noiseShape, zero |-> TRUE]]
    ELSE IF off.shape # noiseShape
    THEN [err |-> "AssertionError", offset |-> cur]
    ELSE IF off.nan
    THEN [err |-> "ValueError: encounter nan", offset |-> cur]
    ELSE [err |-> "", offset |-> [shape |-> off.shape, zero |-> FALSE]]

\* ------------------------------------------------------------ fit: rerange
\* pdict is the sequence of the dict's items in iteration order; an item is
\* [name, islist, v]: islist says whether the value is a list or tuple, v is
\* the value's elements.
Item(name, islist, v) == [name |-> name, islist |-> islist, v |-> v]

\* rerange without the test that the name is an existing key.
RECURSIVE rerange_any_key(_, _, _)
rerange_any_key(pdict, i, pr) ==
    IF i > Len(pdict) THEN [err |-> "", paramrange |-> pr]
    ELSE LET it == pdict[i]
         IN  IF ~it.islist \/ Len(it.v) # 2
             THEN [err |-> "AssertionError", paramrange |-> pr]
             ELSE rerange_any_key(pdict, i + 1, DictUpdate(pr, it.name :> it.v))

RECURSIVE rerange(_, _, _)
rerange(pdict, i, pr) ==
    IF i > Len(pdict) THEN [err |-> "", paramrange |-> pr]
    ELSE LET it == pdict[i]
         IN  IF it.name \in DOMAIN pr
             THEN IF ~it.islist \/ Len(it.v) # 2
                  THEN [err |-> "AssertionError", paramrange |-> pr]
                  ELSE rerange(pdict, i + 1, DictUpdate(pr, it.name :> it.v))
             ELSE rerange(pdict, i + 1, pr)

\* ---------------------------------------------------------------- fit: run
\* The active list with the second subtraction made an elif of the first.
run_activelist_elif(ps, fg, bg) ==
    LET all == DOMAIN ps
    IN  IF bg # None THEN all \ ModelBlacklist[bg]
        ELSE IF fg # None THEN all \ ModelBlacklist[fg]
        ELSE all

\* The active list run() computes before it dispatches to the solver.
run_activelist(ps, fg, bg) ==
    LET all == DOMAIN ps
        a1 == IF bg # None THEN all \ ModelBlacklist[bg] ELSE all
        a2 == IF fg # None THEN a1 \ ModelBlacklist[fg] ELSE a1
    IN  a2

\* ----------------------------------------------------------- fit: __init__
\* The first error among checks made in order ("" when none fails).
RECURSIVE FirstError(_)
FirstError(errs) ==
    IF errs = <<>> THEN ""
    ELSE IF Head(errs) # "" THEN Head(errs)
    ELSE FirstError(Tail(errs))

\* __init__ without the check.
NoModelCheckMissing(fg, bg) == ""

\* The check that ends fit.__init__'s model assignments.
NoModelCheck(fg, bg) ==
    IF fg = None /\ bg = None THEN "ValueError: no activated model" ELSE ""

\* fit.__init__ followed, for an hlfit, by the assignment of the offset.
\* The result is the error raised ("" for none) and the fields of the
\* object built.
fit_init(cls, dataIn, fiducial, noiseIn, covariance, bgIn, fgIn, slv, off, mp) ==
    LET st0 == [foreground |-> None, background |-> None,
                params |-> EmptyDict, paramrange |-> EmptyDict]
        rb == background_setter(bgIn, st0, mp)
        rf == foreground_setter(fgIn, rb.st, mp)
        ro == IF cls = "hlfit"
              THEN offset_setter(off, noiseIn.shape, NoOffset)
              ELSE [err |-> "", offset |-> NoOffset]
        err == FirstError(<<
                 TensorCheck(dataIn),
                 TensorCheck(fiducial),
                 TensorCheck(noiseIn),
                 CovarianceCheck(covariance),
                 rb.err,
                 rf.err,
                 NoModelCheck(rf.st.foreground, rf.st.background),
                 SolverCheck(slv),
                 ro.err >>)
    IN  [err |-> err, st |-> rf.st, data |-> dataIn.shape, noise |-> noiseIn.shape,
         offset |-> ro.offset, solver |-> slv]

\* -------------------------------------------------------------------- state
VARIABLES
    phase,        \* "none" before construction, "ok" once a fit exists,
                  \* "error" when the constructor raised
    kind,         \* the class constructed: "gaussfit" or "hlfit"
    data,         \* shape of fit._data
    noise,        \* shape of fit._noise
    offset,       \* hlfit._offset: [shape, zero]
    foreground,   \* fit._foreground: a model or None
    background,   \* fit._background: a model or None
    params,       \* fit._params
    paramrange,   \* fit._paramrange
    activelist,   \* fit._activelist
    solver,       \* fit._solver
    mstate,       \* the params each model object holds
    nevals,       \* objective evaluations performed so far
    last          \* the last call made: its name, arguments and outcome

vars == <<phase, kind, data, noise, offset, foreground, background, params,
          paramrange, activelist, solver, mstate, nevals, last>>

Last(op, args, err, ret, calls, engine) ==
    [op |-> op, args |-> args, err |-> err, ret |-> ret, calls |-> calls,
     engine |-> engine]

NoRet == Ret("", <<>>)

Init ==
    /\ phase = "none"
    /\ kind = "none"
    /\ data = NoTensor
    /\ noise = NoTensor
    /\ offset = NoOffset
    /\ foreground = None
    /\ background = None
    /\ params = EmptyDict
    /\ paramrange = EmptyDict
    /\ activelist = {}
    /\ solver = None
    /\ mstate = ModelParams0
    /\ nevals = 0
    /\ last = Last("", [x |-> 0], "", NoRet, <<>>, <<>>)

\* cls(data, fiducial, noise, covariance, background, foreground, solver[, offset])
Construct(cls, dataIn, fiducial, noiseIn, covariance, bgIn, fgIn, slv, off) ==
    /\ phase = "none"
    /\ cls = "gaussfit" => off.none
    /\ LET r == fit_init(cls, dataIn, fiducial, noiseIn, covariance, bgIn, fgIn,
                         slv, off, mstate)
           args == [cls |-> cls, data |-> dataIn, fiducial |-> fiducial,
                    noise |-> noiseIn, covariance |-> covariance,
                    background |-> bgIn, foreground |-> fgIn, solver |-> slv,
                    offset |-> off]
       IN  /\ last' = Last("init", args, r.err, NoRet, <<>>, <<>>)
           /\ IF r.err = ""
              THEN /\ phase' = "ok"
                   /\ kind' = cls
                   /\ data' = r.data
                   /\ noise' = r.noise
                   /\ offset' = r.offset
                   /\ foreground' = r.st.foreground
                   /\ background' = r.st.background
                   /\ params' = r.st.params
                   /\ paramrange' = r.st.paramrange
                   /\ solver' = r.solver
              ELSE /\ phase' = "error"
                   /\ UNCHANGED <<kind, data, noise, offset, foreground,
                                  background, params, paramrange, solver>>
    /\ UNCHANGED <<activelist, mstate, nevals>>

Fields == [foreground |-> foreground, background |-> background,
           params |-> params, paramrange |-> paramrange]

\* fit.foreground = m
SetForeground(m) ==
    /\ phase = "ok"
    /\ LET r == foreground_setter(m, Fields, mstate)
       IN  /\ foreground' = r.st.foreground
           /\ params' = r.st.params
           /\ paramrange' = r.st.paramrange
           /\ last' = Last("foreground", [model |-> m], r.err, NoRet, <<>>, <<>>)
    /\ UNCHANGED <<phase, kind, data, noise, offset, background, activelist, solver, mstate, nevals>>

\* fit.background = m
SetBackground(m) ==
    /\ phase = "ok"
    /\ LET r == background_setter(m, Fields, mstate)
       IN  /\ background' = r.st.background
           /\ params' = r.st.params
           /\ paramrange' = r.st.paramrange
           /\ last' = Last("background", [model |-> m], r.err, NoRet, <<>>, <<>>)
    /\ UNCHANGED <<phase, kind, data, noise, offset, foreground, activelist, solver, mstate, nevals>>

\* fit.solver = slv
SetSolver(slv) ==
    /\ phase = "ok"
    /\ solver' = IF SolverCheck(slv) = "" THEN slv ELSE solver
    /\ last' = Last("solver", [solver |-> slv], SolverCheck(slv), NoRet, <<>>, <<>>)
    /\ UNCHANGED <<phase, kind, data, noise, offset, foreground, background, params,
                   paramrange, activelist, mstate, nevals>>

\* fit.noise = t
SetNoise(t) ==
    /\ phase = "ok"
    /\ noise' = IF TensorCheck(t) = "" THEN t.shape ELSE noise
    /\ last' = Last("noise", [tensor |-> t], TensorCheck(t), NoRet, <<>>, <<>>)
    /\ UNCHANGED <<phase, kind, data, offset, foreground, background, params,
                   paramrange, activelist, solver, mstate, nevals>>

\* hlfit.offset = t
SetOffset(t) ==
    /\ phase = "ok"
    /\ kind = "hlfit"
    /\ LET r == offset_setter(t, noise, offset)
       IN  /\ offset' = r.offset
           /\ last' = Last("offset", [tensor |-> t], r.err, NoRet, <<>>, <<>>)
    /\ UNCHANGED <<phase, kind, data, noise, foreground, background, params,
                   paramrange, activelist, solver, mstate, nevals>>

\* fit.data = t
SetData(t) ==
    /\ phase = "ok"
    /\ data' = IF TensorCheck(t) = "" THEN t.shape ELSE data
    /\ last' = Last("data", [tensor |-> t], TensorCheck(t), NoRet, <<>>, <<>>)
    /\ UNCHANGED <<phase, kind, noise, offset, foreground, background, params,
                   paramrange, activelist, solver, mstate, nevals>>

\* fit.params = v
SetParams(v) ==
    /\ phase = "ok"
    /\ params' = IF DictCheck(v) = "" THEN v.d ELSE params
    /\ last' = Last("params", [value |-> v], DictCheck(v), NoRet, <<>>, <<>>)
    /\ UNCHANGED <<phase, kind, data, noise, offset, foreground, background,
                   paramrange, activelist, solver, mstate, nevals>>

\* fit.paramrange = v
SetParamrange(v) ==
    /\ phase = "ok"
    /\ paramrange' = IF DictCheck(v) = "" THEN v.d ELSE paramrange
    /\ last' = Last("paramrange", [value |-> v], DictCheck(v), NoRet, <<>>, <<>>)
    /\ UNCHANGED <<phase, kind, data, noise, offset, foreground, background,
                   params, activelist, solver, mstate, nevals>>

\* fit.activelist = v
SetActivelist(v) ==
    /\ phase = "ok"
    /\ activelist' = IF SetCheck(v) = "" THEN v.s ELSE activelist
    /\ last' = Last("activelist", [value |-> v], SetCheck(v), NoRet, <<>>, <<>>)
    /\ UNCHANGED <<phase, kind, data, noise, offset, foreground, background,
                   params, paramrange, solver, mstate, nevals>>

\* fit.rerange(pdict)
Rerange(pdict) ==
    /\ phase = "ok"
    /\ LET r == rerange(pdict, 1, paramrange)
       IN  /\ paramrange' = r.paramrange
           /\ last' = Last("rerange", [pdict |-> pdict], r.err, NoRet, <<>>, <<>>)
    /\ UNCHANGED <<phase, kind, data, noise, offset, foreground, background, params,
                   activelist, solver, mstate, nevals>>

\* run() that also merges the models' params back into the fit's params.
RunRemerging(nstep, tau, evals) ==
    /\ phase = "ok"
    /\ LET active == run_activelist(params, foreground, background)
           r == SolverAdapter(solver, nstep, tau, evals, foreground, background,
                              active, paramrange, data, mstate)
           p1 == IF foreground # None
                 THEN DictUpdate(params, r.mp[foreground]) ELSE params
       IN  /\ \A i \in 1..Len(evals) : Len(evals[i].cube) = Cardinality(active)
           /\ nevals + Len(evals) <= MaxEvals
           /\ r.n = Len(evals)
           /\ activelist' = active
           /\ mstate' = r.mp
           /\ nevals' = nevals + Len(evals)
           /\ params' = p1
           /\ last' = Last("run", [nstep |-> nstep, tau |-> tau, nevals |-> r.n],
                           r.err, r.ret, <<>>, r.engine)
    /\ UNCHANGED <<phase, kind, data, noise, offset, foreground, background,
                   paramrange, solver>>

\* fit.run(kwargs): the active list is recomputed, then the solver adapter
\* named by fit._solver runs.  nstep is kwargs['nstep'] (read by run_emcee
\* only), tau the autocorrelation time the ensemble sampler reports, evals
\* the evaluations the engine makes, up to the one that raises.
Run(nstep, tau, evals) ==
    /\ phase = "ok"
    /\ LET active == run_activelist(params, foreground, background)
           r == SolverAdapter(solver, nstep, tau, evals, foreground, background,
                              active, paramrange, data, mstate)
       IN  /\ \A i \in 1..Len(evals) : Len(evals[i].cube) = Cardinality(active)
           /\ nevals + Len(evals) <= MaxEvals
           /\ r.n = Len(evals)
           /\ activelist' = active
           /\ mstate' = r.mp
           /\ nevals' = nevals + Len(evals)
           /\ last' = Last("run", [nstep |-> nstep, tau |-> tau, nevals |-> r.n],
                           r.err, r.ret, <<>>, r.engine)
    /\ UNCHANGED <<phase, kind, data, noise, offset, foreground, background, params,
                   paramrange, solver>>

\* fit.run_minuit(kwargs) / fit.run_emcee(kwargs) / fit.run_dynesty(kwargs)
\* called on its own: the adapter runs on the active list as it stands.
RunAdapter(slv, nstep, tau, evals) ==
    /\ phase = "ok"
    /\ LET r == SolverAdapter(slv, nstep, tau, evals, foreground, background,
                              activelist, paramrange, data, mstate)
       IN  /\ \A i \in 1..Len(evals) : Len(evals[i].cube) = Cardinality(activelist)
           /\ nevals + Len(evals) <= MaxEvals
           /\ r.n = Len(evals)
           /\ mstate' = r.mp
           /\ nevals' = nevals + Len(evals)
           /\ last' = Last(AdapterName[slv],
                           [nstep |-> nstep, tau |-> tau, nevals |-> r.n],
                           r.err, r.ret, <<>>, r.engine)
    /\ UNCHANGED <<phase, kind, data, noise, offset, foreground, background, params,
                   paramrange, activelist, solver>>

\* fit._core_likelihood(cube)
CoreLikelihood(cube, num) ==
    /\ phase = "ok"
    /\ nevals < MaxEvals
    /\ LET r == core_likelihood(cube, num, foreground, background, activelist,
                                paramrange, data, mstate)
       IN  /\ mstate' = r.mp
           /\ nevals' = nevals + 1
           /\ last' = Last("_core_likelihood", [cube |-> cube, num |-> num],
                           r.err, r.ret, r.calls, <<>>)
    /\ UNCHANGED <<phase, kind, data, noise, offset, foreground, background, params,
                   paramrange, activelist, solver>>

\* fit._core_lsq(cube)
CoreLsq(cube, num) ==
    /\ phase = "ok"
    /\ nevals < MaxEvals
    /\ LET r == core_lsq(cube, num, foreground, background, activelist,
                         paramrange, data, mstate)
       IN  /\ mstate' = r.mp
           /\ nevals' = nevals + 1
           /\ last' = Last("_core_lsq", [cube |-> cube, num |-> num],
                           r.err, r.ret, r.calls, <<>>)
    /\ UNCHANGED <<phase, kind, data, noise, offset, foreground, background, params,
                   paramrange, activelist, solver>>

\* ------------------------------------------------------------------- inputs
Classes == {"gaussfit", "hlfit"}
ModelArgs == Models \cup {None}
SolverArgs == Solvers \cup {"bogus"}

Tensors == {Tensor(Shape4, FALSE), Tensor(Shape4b, FALSE), Tensor(Shape4c, FALSE),
            Tensor(<<1, 1, 1>>, FALSE), Tensor(Shape4, TRUE), Tensor(Shape4b, TRUE)}
Matrices == {Tensor(<<1, 1>>, FALSE), Tensor(<<1, 2>>, FALSE),
             Tensor(<<1, 1>>, TRUE)}
GoodTensor == Tensor(Shape4, FALSE)
GoodMatrix == Tensor(<<1, 1>>, FALSE)

Coords == (-1)..(One + 1)
Cubes(n) == [1..n -> Coords]
\* The cubes handed to an entry point called on its own: one coordinate per
\* active name, or one coordinate short.
CubesNear(n) == Cubes(n) \cup (IF n > 0 THEN Cubes(n - 1) ELSE {})

\* The evaluations an engine makes on n active names: below the cube, at its
\* centre and on its upper edge, the numerics finite or the residual NaN.
EngineCoords == {-1, 1, One}
EngineNums == {"finite", "diffnan"}
EngineEvals(n) == {Eval(c, num) : c \in [1..n -> EngineCoords], num \in EngineNums}
\* The sequences of evaluations an engine can make within MaxEvals.
EvalSeqs(n) == UNION {[1..k -> EngineEvals(n)] : k \in 0..(MaxEvals - nevals)}

\* The evaluations of an ensemble whose walkers stay at the centre of the
\* cube.
CentreSeqs(n) ==
    UNION {[1..k -> {Eval([i \in 1..n |-> 1], num) : num \in EngineNums}]
           : k \in 0..(MaxEvals - nevals)}

Items == {Item(n, TRUE, <<1, 2>>) : n \in Names}
         \cup {Item(n, TRUE, <<1>>) : n \in Names}
         \cup {Item(n, FALSE, <<3>>) : n \in Names}
Pdicts == UNION {{pd \in [1..k -> Items] :
                    \A i, j \in 1..k : i # j => pd[i].name # pd[j].name}
                 : k \in 0..MaxPdict}

ParamInputs == {Dict(EmptyDict), Dict("c" :> One), Dict("b" :> One @@ "c" :> 0),
                NotDict}
RangeInputs == {Dict(EmptyDict), Dict("c" :> <<0, 1>>),
                Dict("a" :> <<1, 2>> @@ "b" :> <<0, 1>>), NotDict}
ActiveInputs == {Set({}), Set({"b"}), Set({"c"}), Set({"a", "c"}), NotSet}

DataInputs == {Tensor(Shape4b, FALSE), Tensor(<<1, 1, 1>>, FALSE),
               Tensor(Shape4, TRUE)}

NSteps == {0, 49, 50, 100}
Taus == 0..MaxTau

\* ----------------------------------------------------------- specifications
\* A behaviour ends once MaxEvals objective evaluations have been made.
Open == nevals < MaxEvals

\* gaussfit(...) with valid tensors and any models and solver
NewFit ==
    /\ phase = "none"
    /\ \E bgIn \in ModelArgs, fgIn \in ModelArgs, slv \in Solvers :
        Construct("gaussfit", GoodTensor, GoodTensor, GoodTensor, GoodMatrix,
                  bgIn, fgIn, slv, NoneTensor)

\* gaussfit(...) with valid tensors, any models and the default solver
NewDefault ==
    /\ phase = "none"
    /\ \E bgIn \in ModelArgs, fgIn \in ModelArgs :
        Construct("gaussfit", GoodTensor, GoodTensor, GoodTensor, GoodMatrix,
                  bgIn, fgIn, "dynesty", NoneTensor)

\* gaussfit(...) or hlfit(...) on every combination of arguments
NewAny ==
    /\ phase = "none"
    /\ \E cls \in Classes, dataIn \in Tensors, fiducial \in Tensors,
       noiseIn \in Tensors, covariance \in Matrices,
       bgIn \in ModelArgs, fgIn \in ModelArgs, slv \in SolverArgs,
       off \in Tensors \cup {NoneTensor} :
        Construct(cls, dataIn, fiducial, noiseIn, covariance, bgIn, fgIn, slv, off)

\* hlfit(...) with one foreground model, any noise and any offset
NewHL ==
    /\ phase = "none"
    /\ \E noiseIn \in Tensors, off \in Tensors \cup {NoneTensor} :
        Construct("hlfit", GoodTensor, GoodTensor, noiseIn, GoodMatrix,
                  None, "F1", "dynesty", off)

Attach ==
    \/ \E m \in ModelArgs : Open /\ SetForeground(m)
    \/ \E m \in ModelArgs : Open /\ SetBackground(m)

Configure == \E slv \in SolverArgs : Open /\ SetSolver(slv)

Reranging == \E pd \in Pdicts : Open /\ Rerange(pd)

AssignParams == \E v \in ParamInputs : Open /\ SetParams(v)

AssignRanges == \E v \in RangeInputs : Open /\ SetParamrange(v)

AssignActive == \E v \in ActiveInputs : Open /\ SetActivelist(v)

AssignData == \E t \in DataInputs : Open /\ SetData(t)

Running ==
    /\ Open
    /\ \E evals \in EvalSeqs(Cardinality(run_activelist(params, foreground, background))) :
           Run(50, 1, evals)

Direct ==
    /\ Open
    /\ \E slv \in Solvers, evals \in EvalSeqs(Cardinality(activelist)) :
           RunAdapter(slv, 50, 1, evals)

Sampling ==
    /\ Open
    /\ \E nstep \in NSteps, tau \in Taus :
       \/ \E evals \in CentreSeqs(Cardinality(run_activelist(params, foreground, background))) :
              Run(nstep, tau, evals)
       \/ \E evals \in CentreSeqs(Cardinality(activelist)) :
              RunAdapter("emcee", nstep, tau, evals)

Evaluating ==
    \/ \E cube \in CubesNear(Cardinality(activelist)), num \in Nums :
           CoreLikelihood(cube, num)
    \/ \E cube \in CubesNear(Cardinality(activelist)), num \in Nums :
           CoreLsq(cube, num)

Assigning ==
    \/ \E t \in Tensors : SetNoise(t)
    \/ \E t \in Tensors \cup {NoneTensor} : SetOffset(t)

\* Models attached and replaced, and the fit run.
Next == NewFit \/ Attach \/ Running
Spec == Init /\ [][Next]_vars

\* The constructor on every combination of arguments.
NextInit == NewAny
SpecInit == Init /\ [][NextInit]_vars

\* Ranges narrowed and replaced.
NextRerange == NewDefault \/ AssignRanges \/ Reranging
SpecRerange == Init /\ [][NextRerange]_vars

\* The ranges, the active list and the data assigned, then the fit run and
\* the objective evaluated.
NextCore ==
    NewDefault \/ AssignRanges \/ AssignActive \/ AssignData \/ Running \/ Evaluating
SpecCore == Init /\ [][NextCore]_vars

\* The params and the active list assigned, then the fit run and its
\* adapters called.
NextRun == NewFit \/ AssignParams \/ AssignActive \/ Running \/ Direct
SpecRun == Init /\ [][NextRun]_vars

\* The ensemble sampler on every step count and autocorrelation time.
NextEmcee == NewFit \/ Configure \/ Sampling
SpecEmcee == Init /\ [][NextEmcee]_vars

\* An hlfit whose noise and offset are assigned.
NextHL == NewHL \/ Assigning
SpecHL == Init /\ [][NextHL]_vars

\* ------------------------------------------------------------------- claims
IsCore(l) == l.op \in {"_core_likelihood", "_core_lsq"}
Outside(cube) == \E i \in 1..Len(cube) : cube[i] < 0 \/ cube[i] > One
Attached == <<foreground, background>>

\* C1: an objective evaluation at a cube with a coordinate outside [0,1]
\* returns the entry point's sentinel (the most negative finite value from
\* _core_likelihood, the most positive from _core_lsq), raises nothing, makes
\* no call on a model and leaves the models' parameter state as it was.
C1_OutsideCubeSentinel ==
    [][(IsCore(last') /\ Outside(last'.args.cube)) =>
         /\ last'.err = ""
         /\ last'.calls = <<>>
         /\ mstate' = mstate
         /\ last'.op = "_core_likelihood" => last'.ret = Ret("nan_to_num(-inf)", <<>>)
         /\ last'.op = "_core_lsq" => last'.ret = Ret("nan_to_num(+inf)", <<>>)]_vars

\* A least-squares evaluation of a two-name cube whose first coordinate is
\* inside and whose second is above 1 has returned the positive sentinel.
C1_Witness ==
    /\ last.op = "_core_lsq"
    /\ Len(last.args.cube) = 2
    /\ last.args.cube[1] = 1
    /\ last.args.cube[2] = One + 1
    /\ foreground # None
    /\ last.ret = MostPositive

\* C2: after run() the active list is the key set of the merged params minus
\* the blacklist of every attached model, whatever it held before.
C2_ActiveListRecomputed ==
    last.op = "run" =>
        activelist = {n \in DOMAIN params :
                        /\ foreground # None => n \notin ModelBlacklist[foreground]
                        /\ background # None => n \notin ModelBlacklist[background]}

\* run() of a fit holding F1 and B1, whose params were assigned the keys "b"
\* and "c", has left out "b", which F1 declares and B1 blacklists.
C2_Witness ==
    /\ last.op = "run"
    /\ foreground = "F1"
    /\ background = "B1"
    /\ DOMAIN params = {"b", "c"}
    /\ "b" \in DOMAIN mstate["F1"]
    /\ "b" \in ModelBlacklist["B1"]
    /\ activelist = {"c"}

\* C3: once a fit is constructed, foreground and background are never both
\* absent.
C3_ModelAlwaysAttached ==
    phase = "ok" => ~(foreground = None /\ background = None)

ValidTensor(t) == Len(t.shape) = 4 /\ ~t.nan
ValidMatrix(t) == Len(t.shape) = 2 /\ t.shape[1] = t.shape[2] /\ ~t.nan

\* C4: constructing a fit with valid tensors and with background and
\* foreground both None raises ValueError('no activated model') for every
\* solver name, and no fit object exists afterwards.
C4_NoModelRejected ==
    (/\ last.op = "init"
     /\ ValidTensor(last.args.data)
     /\ ValidTensor(last.args.fiducial)
     /\ ValidTensor(last.args.noise)
     /\ ValidMatrix(last.args.covariance)
     /\ last.args.background = None
     /\ last.args.foreground = None)
    => /\ last.err = "ValueError: no activated model"
       /\ phase = "error"

\* The constructor called with no model and a solver name outside the
\* enumerated set has raised the no-model error.
C4_Witness ==
    /\ last.op = "init"
    /\ last.args.background = None
    /\ last.args.foreground = None
    /\ last.args.solver = "bogus"
    /\ last.args.cls = "hlfit"
    /\ last.err = "ValueError: no activated model"
    /\ phase = "error"

PdictNames(pd) == {pd[i].name : i \in 1..Len(pd)}

\* C5: rerange(pdict) keeps the key set of paramrange, leaves the range of
\* every key pdict does not name as it was, and a pdict naming no existing
\* key changes nothing and raises nothing.
C5_RerangeExistingKeysOnly ==
    [][last'.op = "rerange" =>
         /\ DOMAIN paramrange' = DOMAIN paramrange
         /\ \A k \in DOMAIN paramrange :
              k \notin PdictNames(last'.args.pdict) => paramrange'[k] = paramrange[k]
         /\ PdictNames(last'.args.pdict) \cap DOMAIN paramrange = {} =>
              (paramrange' = paramrange /\ last'.err = "")]_vars

\* rerange of a pdict naming the unknown "c" and then the known "a" has
\* narrowed "a" and inserted nothing.
C5_Witness ==
    /\ last.op = "rerange"
    /\ Len(last.args.pdict) = 2
    /\ last.args.pdict[1].name = "c"
    /\ last.args.pdict[2] = Item("a", TRUE, <<1, 2>>)
    /\ last.err = ""
    /\ DOMAIN paramrange = {"a", "b"}
    /\ paramrange["a"] = <<1, 2>>
    /\ paramrange["b"] = <<1, 3>>

\* C6: run() leaves the fit's params and paramrange (keys and values), and
\* the models and solver it holds, as they were; only the active list and
\* the models' own parameter state change.
C6_RunKeepsParams ==
    [][last'.op = "run" =>
         /\ params' = params
         /\ paramrange' = paramrange
         /\ foreground' = foreground
         /\ background' = background
         /\ solver' = solver]_vars

\* A run whose solver evaluated the objective has moved F1's own value of
\* "a" away from the value the fit's params still hold.
C6_Witness ==
    /\ last.op = "run"
    /\ last.args.nevals >= 1
    /\ last.err = ""
    /\ foreground = "F1"
    /\ params["a"] = 2
    /\ mstate["F1"]["a"] = 4

\* C7: run_emcee calls the engine in this order: a burn-in run of nstep//10
\* steps from random positions, reset, a run of nstep steps from the burn-in
\* state, the autocorrelation estimate; then reset and a run of 100*tau steps
\* from the last state exactly when nstep < 50*tau; then get_chain with a
\* discard of 10*tau.  When the extension runs, the chain handed back has
\* more steps per walker than nstep.
C7_EmceeOrder ==
    (last.op \in {"run", "run_emcee"} /\ last.ret.kind = "emcee") =>
        LET e == last.engine
            n == last.args.nstep
            t == last.args.tau
            head == <<[op |-> "run_mcmc", from |-> "random", n |-> n \div 10],
                      [op |-> "reset", from |-> "", n |-> 0],
                      [op |-> "run_mcmc", from |-> "burn-in state", n |-> n],
                      [op |-> "get_autocorr_time", from |-> "", n |-> t]>>
            ext == <<[op |-> "reset", from |-> "", n |-> 0],
                     [op |-> "run_mcmc", from |-> "run state", n |-> 100 * t]>>
            tail == <<[op |-> "get_chain", from |-> "", n |-> 10 * t]>>
        IN  /\ n < 50 * t => (e = head \o ext \o tail /\ ChainSteps(e, 1, 0) > n)
            /\ ~(n < 50 * t) => e = head \o tail

\* A run of 49 steps whose chain has autocorrelation time 1 was extended.
C7_Witness ==
    /\ last.op = "run"
    /\ last.ret.kind = "emcee"
    /\ last.args.nstep = 49
    /\ last.args.tau = 1
    /\ Len(last.engine) = 7
    /\ ChainSteps(last.engine, 1, 0) = 90

\* C8: the offset an hlfit holds has the shape of the noise it holds.
C8_OffsetShapedLikeNoise ==
    (phase = "ok" /\ kind = "hlfit") => offset.shape = noise

\* The i-th active name in ascending order.
NthName(i) ==
    CHOOSE x \in activelist :
        Cardinality({y \in activelist : Rank(y) < Rank(x)}) = i - 1

\* C9: an evaluation at a cube inside [0,1]^k of a fit that holds a model and
\* a range for each of its k active names resets, for the i-th active name in
\* ascending order, every attached model (foreground first) to that name's
\* range mapped at the i-th coordinate, then asks every attached model once
\* for its band power (foreground first) and hands their sum to the entry
\* point's statistic; both entry points make the same calls.
C9_EvaluationCalls ==
    (/\ IsCore(last)
     /\ ~Outside(last.args.cube)
     /\ Attached # <<None, None>>
     /\ activelist \subseteq DOMAIN paramrange
     /\ Len(last.args.cube) >= Cardinality(activelist)) =>
        LET att == SelectSeq(Attached, LAMBDA m : m # None)
            m == Len(att)
            k == Cardinality(activelist)
            c == last.calls
            stat == IF last.op = "_core_lsq" THEN "lsq" ELSE "loglikeli"
            sentinel == IF last.op = "_core_lsq" THEN "nan_to_num(+inf)"
                        ELSE "nan_to_num(-inf)"
        IN  /\ Len(c) = k * m + m
            /\ \A i \in 1..k : \A j \in 1..m :
                 c[(i - 1) * m + j] =
                    [model |-> att[j], op |-> "reset", name |-> NthName(i),
                     value |-> last.args.cube[i]
                                 * (paramrange[NthName(i)][2] - paramrange[NthName(i)][1])
                               + One * paramrange[NthName(i)][1]]
            /\ \A j \in 1..m :
                 c[k * m + j] = [model |-> att[j], op |-> "bandpower",
                                 name |-> "", value |-> 0]
            /\ last.ret.of = att
            /\ last.ret.kind \in {stat, sentinel, "raise"}
            /\ last.err \in {"", "AssertionError", "ValueError: encounter nan",
                              "LinAlgError"}
            /\ (last.err = "") = (last.ret.kind # "raise")

\* A likelihood evaluation on F1 alone, after the ranges were assigned, has
\* reset "a" and then "b", each from its own range, and asked for one band
\* power, whose statistic came out finite.
C9_Witness ==
    /\ last.op = "_core_likelihood"
    /\ foreground = "F1"
    /\ background = None
    /\ last.args.cube = <<1, 2>>
    /\ paramrange = ("a" :> <<1, 2>> @@ "b" :> <<0, 1>>)
    /\ last.calls = <<ResetCall("F1", "a", 3), ResetCall("F1", "b", 2),
                      BandpowerCall("F1")>>
    /\ last.ret = Ret("loglikeli", <<"F1">>)

\* C10: the keys of params and of paramrange are the union of the params
\* keys of the models attached (stated for the fits that hold a model).
C10_ParamsAreMergeOfAttached ==
    (phase = "ok" /\ Attached # <<None, None>>) =>
        LET declared == UNION {DOMAIN mstate[m] : m \in {foreground, background} \ {None}}
        IN  /\ DOMAIN params = declared
            /\ DOMAIN paramrange = declared

====
